---------------------------- MODULE Spec2Model ----------------------------
(***************************************************************************)
(* A model of the whirlpool pricing core: the fixed-point primitives of    *)
(* math/bit_math.rs, the price/amount conversions of math/token_math.rs,   *)
(* the tick-array traversal of util/swap_tick_sequence.rs and the program  *)
(* entry points of lib.rs.                                                 *)
(*                                                                         *)
(* Integer widths are scaled: a 64-bit word of the program is WordBits     *)
(* bits wide here, so u64 is 0 .. 2^WordBits - 1, u128 is two words and    *)
(* the 256-bit helper type four words.  Every shift, mask, truncation and  *)
(* overflow test of the source is kept, at the scaled width.               *)
(***************************************************************************)
EXTENDS Integers, Sequences, FiniteSets, TLC

\* Width, in bits, of the model's 64-bit word.
WordBits == 3

Pow2(k) == 2 ^ k

\* bit_math.rs:5  pub const Q64_RESOLUTION: u8 = 64
Q64_RESOLUTION == WordBits
\* bit_math.rs:6  pub const TO_Q64: u128 = 1u128 << Q64_RESOLUTION
TO_Q64 == Pow2(Q64_RESOLUTION)
\* bit_math.rs:36  const Q64_MASK: u128 = 0xFFFF_FFFF_FFFF_FFFF
Q64_MASK == Pow2(Q64_RESOLUTION) - 1

U64_MAX == Pow2(WordBits) - 1
U128_MAX == Pow2(2 * WordBits) - 1
U256_MOD == Pow2(4 * WordBits)

U64 == 0 .. U64_MAX
U128 == 0 .. U128_MAX

\* Result<T, ErrorCode>
Ok(v) == [ok |-> TRUE, val |-> v, err |-> "none"]
Err(e) == [ok |-> FALSE, val |-> 0, err |-> e]

VARIABLES
    pc,                          \* the operation that has run ("idle": none yet)
    n0, n1, d, round_up, result, \* bit_math.rs: arguments and returned value
    sqrt_price, liquidity, amount, amount_specified_is_input, a_to_b,
    next_sqrt_price,             \* token_math.rs: get_next_sqrt_price and its result
    tick_spacing,                \* Whirlpool.tick_spacing
    arrays,                      \* SwapTickSequence.arrays
    array_index, tick_index,     \* arguments of the SwapTickSequence methods
    update,                      \* the TickUpdate handed to update_tick
    tick_ret,                    \* the value a SwapTickSequence method returned
    queried,                     \* the chunks get_next_initialized_tick_index queried
    scan_from, visited,          \* a repeated search: its first search position
                                 \* and the ticks it has returned
    tick_lower_index, tick_upper_index,
    open_ret,                    \* lib.rs: open_position's arguments and result
    sqrt_price_limit,            \* swap: the caller's price limit
    iterations,                  \* swap: the iterations of the loop completed
    before,                      \* swap: the state the last iteration started in
                                 \* and the tick it aimed at
    price_0, price_1,            \* token_math.rs: the prices handed to
    amount_delta                 \* get_amount_delta_a/b and the value returned

mathVars == <<n0, n1, d, round_up, result>>
priceVars == <<sqrt_price, liquidity, amount, amount_specified_is_input,
               next_sqrt_price>>
poolVars == <<tick_spacing, arrays>>
tickVars == <<array_index, tick_index, update, tick_ret, queried, scan_from,
              visited>>
openVars == <<tick_lower_index, tick_upper_index, open_ret>>
swapVars == <<sqrt_price_limit, iterations, before>>
deltaVars == <<price_0, price_1, amount_delta>>
vars == <<pc, mathVars, priceVars, a_to_b, poolVars, tickVars, openVars,
          swapVars, deltaVars>>

--------------------------------------------------------------------------
(* math/bit_math.rs *)

\* u128::checked_mul
checked_mul(x, y) == IF x * y > U128_MAX THEN Err("overflow") ELSE Ok(x * y)

\* A build of checked_mul_div_round_up_if with a double-width product.
checked_mul_div_round_up_if_wide(x0, x1, dd, up) ==
    IF dd = 0 THEN Err("DivideByZero")
    ELSE LET p == x0 * x1
             n == p \div dd
             r == IF up /\ p % dd > 0 THEN n + 1 ELSE n
         IN IF r > U128_MAX THEN Err("MulDivOverflow") ELSE Ok(r)

checked_mul_div_round_up_if(x0, x1, dd, up) ==
    IF dd = 0 THEN Err("DivideByZero")
    ELSE LET p == checked_mul(x0, x1)
         IN IF ~p.ok THEN Err("MulDivOverflow")
            ELSE LET n == p.val \div dd
                 IN Ok(IF up /\ p.val % dd > 0 THEN n + 1 ELSE n)

checked_mul_div(x0, x1, dd) == checked_mul_div_round_up_if(x0, x1, dd, FALSE)

checked_mul_div_round_up(x0, x1, dd) == checked_mul_div_round_up_if(x0, x1, dd, TRUE)

\* A build of checked_mul_shift_right_round_up_if without the test for a
\* round-up at u64::MAX: the increment wraps.
checked_mul_shift_right_round_up_if_wrap(x0, x1, up) ==
    IF x0 = 0 \/ x1 = 0 THEN Ok(0)
    ELSE LET p == checked_mul(x0, x1)
         IN IF ~p.ok THEN Err("MultiplicationShiftRightOverflow")
            ELSE LET res == (p.val \div Pow2(Q64_RESOLUTION)) % Pow2(WordBits)
                     should_round == up /\ (p.val % (Q64_MASK + 1) > 0)
                 IN Ok(IF should_round THEN (res + 1) % Pow2(WordBits) ELSE res)

checked_mul_shift_right_round_up_if(x0, x1, up) ==
    IF x0 = 0 \/ x1 = 0 THEN Ok(0)
    ELSE LET p == checked_mul(x0, x1)
         IN IF ~p.ok THEN Err("MultiplicationShiftRightOverflow")
            ELSE LET \* (p >> Q64_RESOLUTION) as u64
                     res == (p.val \div Pow2(Q64_RESOLUTION)) % Pow2(WordBits)
                     \* p & Q64_MASK > 0
                     should_round == up /\ (p.val % (Q64_MASK + 1) > 0)
                 IN IF should_round /\ res = U64_MAX
                    THEN Err("MultiplicationOverflow")
                    ELSE Ok(IF should_round THEN res + 1 ELSE res)

checked_mul_shift_right(x0, x1) == checked_mul_shift_right_round_up_if(x0, x1, FALSE)

div_round_up_if(n, dd, up) ==
    IF dd = 0 THEN Err("DivideByZero")
    ELSE LET q == n \div dd
         IN Ok(IF up /\ n % dd > 0 THEN q + 1 ELSE q)

div_round_up(n, dd) == div_round_up_if(n, dd, TRUE)

--------------------------------------------------------------------------
(* The 256-bit helper type U256Muldiv (math/u256_math.rs): a value is the  *)
(* integer it denotes, below 2^(4*WordBits).                               *)

mul_u256(x, y) == (x * y) % U256_MOD

\* Shift left by one word; None when the top word is in use.
checked_shift_word_left(v) ==
    IF v >= Pow2(3 * WordBits) THEN Err("None") ELSE Ok(v * Pow2(WordBits))

\* Shift left by one word, the top word dropped.
shift_word_left(v) == (v * Pow2(WordBits)) % U256_MOD

u256_add(x, y) == (x + y) % U256_MOD

u256_sub(x, y) == (x - y) % U256_MOD

u256_lte(x, y) == x <= y

u256_is_zero(v) == v = 0

\* (quotient, remainder); the remainder is computed only when asked for.
u256_div(n, dd, return_remainder) ==
    IF dd = 0 THEN Err("DivideByZeroPanic")
    ELSE Ok([quotient |-> n \div dd,
             remainder |-> IF return_remainder THEN n % dd ELSE 0])

try_into_u128(v) == IF v > U128_MAX THEN Err("NumberDownCastError") ELSE Ok(v)

\* bit_math.rs: div_round_up_if_u256
div_round_up_if_u256(n, dd, up) ==
    LET qr == u256_div(n, dd, up)
    IN IF ~qr.ok THEN qr
       ELSE LET res == IF up /\ ~u256_is_zero(qr.val.remainder)
                       THEN u256_add(qr.val.quotient, 1)
                       ELSE qr.val.quotient
            IN try_into_u128(res)

\* The pool's least and greatest square-root price (math/tick_math.rs): in
\* Q64.64 about 2^-32 and 2^32, that is half a word below and above one.
MIN_SQRT_PRICE_X64 == Pow2(WordBits \div 2)

MAX_SQRT_PRICE_X64 == Pow2(WordBits + WordBits \div 2)

--------------------------------------------------------------------------
(* math/token_math.rs *)

increasing_price_order(sqrt_price_0, sqrt_price_1) ==
    IF sqrt_price_0 > sqrt_price_1
    THEN <<sqrt_price_1, sqrt_price_0>>
    ELSE <<sqrt_price_0, sqrt_price_1>>

\* A build of get_amount_delta_a that divides by the square of the upper
\* price.
get_amount_delta_a_upper_squared(sqrt_price_0, sqrt_price_1, liq, up) ==
    LET ord == increasing_price_order(sqrt_price_0, sqrt_price_1)
        sqrt_price_lower == ord[1]
        sqrt_price_upper == ord[2]
        sqrt_price_diff == sqrt_price_upper - sqrt_price_lower
        numerator == checked_shift_word_left(mul_u256(liq, sqrt_price_diff))
        denominator == mul_u256(sqrt_price_upper, sqrt_price_upper)
    IN IF ~numerator.ok THEN Err("MultiplicationOverflow")
       ELSE LET qr == u256_div(numerator.val, denominator, up)
            IN IF ~qr.ok THEN qr
               ELSE LET res == IF up /\ ~u256_is_zero(qr.val.remainder)
                               THEN try_into_u128(u256_add(qr.val.quotient, 1))
                               ELSE try_into_u128(qr.val.quotient)
                    IN IF ~res.ok THEN res
                       ELSE IF res.val > U64_MAX THEN Err("TokenMaxExceeded")
                       ELSE Ok(res.val)

\* A build of get_amount_delta_a without the test against u64::MAX: the
\* cast to u64 truncates.
get_amount_delta_a_truncating(sqrt_price_0, sqrt_price_1, liq, up) ==
    LET ord == increasing_price_order(sqrt_price_0, sqrt_price_1)
        sqrt_price_lower == ord[1]
        sqrt_price_upper == ord[2]
        sqrt_price_diff == sqrt_price_upper - sqrt_price_lower
        numerator == checked_shift_word_left(mul_u256(liq, sqrt_price_diff))
        denominator == mul_u256(sqrt_price_upper, sqrt_price_lower)
    IN IF ~numerator.ok THEN Err("MultiplicationOverflow")
       ELSE LET qr == u256_div(numerator.val, denominator, up)
            IN IF ~qr.ok THEN qr
               ELSE LET res == IF up /\ ~u256_is_zero(qr.val.remainder)
                               THEN try_into_u128(u256_add(qr.val.quotient, 1))
                               ELSE try_into_u128(qr.val.quotient)
                    IN IF ~res.ok THEN res
                       ELSE Ok(res.val % Pow2(WordBits))

get_amount_delta_a(sqrt_price_0, sqrt_price_1, liq, up) ==
    LET ord == increasing_price_order(sqrt_price_0, sqrt_price_1)
        sqrt_price_lower == ord[1]
        sqrt_price_upper == ord[2]
        sqrt_price_diff == sqrt_price_upper - sqrt_price_lower
        numerator == checked_shift_word_left(mul_u256(liq, sqrt_price_diff))
        denominator == mul_u256(sqrt_price_upper, sqrt_price_lower)
    IN IF ~numerator.ok THEN Err("MultiplicationOverflow")
       ELSE LET qr == u256_div(numerator.val, denominator, up)
            IN IF ~qr.ok THEN qr
               ELSE LET res == IF up /\ ~u256_is_zero(qr.val.remainder)
                               THEN try_into_u128(u256_add(qr.val.quotient, 1))
                               ELSE try_into_u128(qr.val.quotient)
                    IN IF ~res.ok THEN res
                       ELSE IF res.val > U64_MAX THEN Err("TokenMaxExceeded")
                       ELSE Ok(res.val)

\* A build of get_amount_delta_b whose round-up at u64::MAX wraps to 0.
get_amount_delta_b_wrapping(sqrt_price_0, sqrt_price_1, liq, up) ==
    LET ord == increasing_price_order(sqrt_price_0, sqrt_price_1)
        price_lower == ord[1]
        price_upper == ord[2]
    IN checked_mul_shift_right_round_up_if_wrap(liq, price_upper - price_lower,
                                                up)

get_amount_delta_b(sqrt_price_0, sqrt_price_1, liq, up) ==
    LET ord == increasing_price_order(sqrt_price_0, sqrt_price_1)
        price_lower == ord[1]
        price_upper == ord[2]
    IN checked_mul_shift_right_round_up_if(liq, price_upper - price_lower, up)

\* A build of get_next_sqrt_price_from_a_round_up that rounds the price down.
get_next_sqrt_price_from_a_round_down(price, liq, amt, is_input) ==
    IF amt = 0 THEN Ok(price)
    ELSE LET product == mul_u256(price, amt)
             numerator == checked_shift_word_left(mul_u256(liq, price))
             liquidity_shift_left == shift_word_left(liq)
         IN IF ~numerator.ok THEN Err("MultiplicationOverflow")
            ELSE IF ~is_input /\ u256_lte(liquidity_shift_left, product)
            THEN Err("DivideByZero")
            ELSE LET denominator == IF is_input
                                    THEN u256_add(liquidity_shift_left, product)
                                    ELSE u256_sub(liquidity_shift_left, product)
                     p == div_round_up_if_u256(numerator.val, denominator, FALSE)
                 IN IF ~p.ok THEN p
                    ELSE IF p.val < MIN_SQRT_PRICE_X64 THEN Err("TokenMinSubceeded")
                    ELSE IF p.val > MAX_SQRT_PRICE_X64 THEN Err("TokenMaxExceeded")
                    ELSE Ok(p.val)

get_next_sqrt_price_from_a_round_up(price, liq, amt, is_input) ==
    IF amt = 0 THEN Ok(price)
    ELSE LET product == mul_u256(price, amt)
             numerator == checked_shift_word_left(mul_u256(liq, price))
             liquidity_shift_left == shift_word_left(liq)
         IN IF ~numerator.ok THEN Err("MultiplicationOverflow")
            ELSE IF ~is_input /\ u256_lte(liquidity_shift_left, product)
            THEN Err("DivideByZero")
            ELSE LET denominator == IF is_input
                                    THEN u256_add(liquidity_shift_left, product)
                                    ELSE u256_sub(liquidity_shift_left, product)
                     p == div_round_up_if_u256(numerator.val, denominator, TRUE)
                 IN IF ~p.ok THEN p
                    ELSE IF p.val < MIN_SQRT_PRICE_X64 THEN Err("TokenMinSubceeded")
                    ELSE IF p.val > MAX_SQRT_PRICE_X64 THEN Err("TokenMaxExceeded")
                    ELSE Ok(p.val)

\* u128::checked_add, u128::checked_sub
checked_add(x, y) == IF x + y > U128_MAX THEN Err("overflow") ELSE Ok(x + y)

checked_sub(x, y) == IF x < y THEN Err("overflow") ELSE Ok(x - y)

\* A build of get_next_sqrt_price_from_b_round_down with wrapping_add and
\* wrapping_sub in place of checked_add and checked_sub.
get_next_sqrt_price_from_b_wrapping(price, liq, amt, is_input) ==
    LET amount_x64 == (amt * Pow2(Q64_RESOLUTION)) % Pow2(2 * WordBits)
        delta == div_round_up_if(amount_x64, liq, ~is_input)
    IN IF ~delta.ok THEN delta
       ELSE IF is_input THEN Ok((price + delta.val) % Pow2(2 * WordBits))
       ELSE Ok((price + Pow2(2 * WordBits) - delta.val) % Pow2(2 * WordBits))

\* A build of get_next_sqrt_price_from_b_round_down that rounds the delta
\* the other way: up when fixing input, down when fixing output.
get_next_sqrt_price_from_b_round_swapped(price, liq, amt, is_input) ==
    LET amount_x64 == (amt * Pow2(Q64_RESOLUTION)) % Pow2(2 * WordBits)
        delta == div_round_up_if(amount_x64, liq, is_input)
    IN IF ~delta.ok THEN delta
       ELSE LET r == IF is_input THEN checked_add(price, delta.val)
                                 ELSE checked_sub(price, delta.val)
            IN IF r.ok THEN r ELSE Err("SqrtPriceOutOfBounds")

get_next_sqrt_price_from_b_round_down(price, liq, amt, is_input) ==
    LET \* (amount as u128) << Q64_RESOLUTION
        amount_x64 == (amt * Pow2(Q64_RESOLUTION)) % Pow2(2 * WordBits)
        delta == div_round_up_if(amount_x64, liq, ~is_input)
    IN IF ~delta.ok THEN delta
       ELSE LET r == IF is_input THEN checked_add(price, delta.val)
                                 ELSE checked_sub(price, delta.val)
            IN IF r.ok THEN r ELSE Err("SqrtPriceOutOfBounds")

\* A build of get_next_sqrt_price that hands the negated input flag on.
get_next_sqrt_price_flipped(price, liq, amt, is_input, atob) ==
    IF is_input = atob
    THEN get_next_sqrt_price_from_a_round_up(price, liq, amt, ~is_input)
    ELSE get_next_sqrt_price_from_b_round_down(price, liq, amt, ~is_input)

get_next_sqrt_price(price, liq, amt, is_input, atob) ==
    IF is_input = atob
    THEN get_next_sqrt_price_from_a_round_up(price, liq, amt, is_input)
    ELSE get_next_sqrt_price_from_b_round_down(price, liq, amt, is_input)

--------------------------------------------------------------------------
(* The tick and tick-array model (state/tick.rs, state/tick_array.rs).     *)
(* The tick range and the chunk capacity are scaled.                       *)

\* The greatest tick index of a pool; the least is its negation.
MAX_TICK_INDEX == 3

MIN_TICK_INDEX == -MAX_TICK_INDEX

\* The number of ticks of a tick array.
TICK_ARRAY_SIZE == 2

\* The tick spacings of the modelled pools.
TickSpacings == {1, 2}

\* Option<T>
Some(v) == [some |-> TRUE, val |-> v]
None == [some |-> FALSE, val |-> 0]

\* The start indices a tick array of a pool can have: aligned to the array's
\* span, from the array that covers MIN_TICK_INDEX to the one that covers
\* MAX_TICK_INDEX.
ValidStartTicks(spacing) ==
    LET span == TICK_ARRAY_SIZE * spacing
    IN {s \in (MIN_TICK_INDEX - span) .. MAX_TICK_INDEX :
           s % span = 0 /\ s + span > MIN_TICK_INDEX}

\* The ticks a position can reference, hence the ticks that can be
\* initialized: multiples of the spacing within the global bounds.
UsableTicks(spacing) ==
    {t \in MIN_TICK_INDEX .. MAX_TICK_INDEX : t % spacing = 0}

\* The tick array starting at start of a pool whose initialized ticks are init.
TickArrayOf(start, spacing, init) ==
    [start_tick_index |-> start,
     ticks |-> [i \in 1 .. TICK_ARRAY_SIZE |->
                   [initialized |-> (start + (i - 1) * spacing) \in init]]]

\* TickArray::in_search_range
in_search_range(array, tick, spacing, shifted) ==
    LET lower == array.start_tick_index - (IF shifted THEN spacing ELSE 0)
        upper == array.start_tick_index + TICK_ARRAY_SIZE * spacing
                 - (IF shifted THEN spacing ELSE 0)
    IN tick >= lower /\ tick < upper

\* TickArray::tick_offset
TickArray_tick_offset(array, tick, spacing) ==
    IF \/ ~in_search_range(array, tick, spacing, FALSE)
       \/ tick % spacing # 0
    THEN Err("TickNotFound")
    ELSE Ok((tick - array.start_tick_index) \div spacing)

\* TickArray::get_tick
TickArray_get_tick(array, tick, spacing) ==
    LET offset == TickArray_tick_offset(array, tick, spacing)
    IN IF ~offset.ok THEN offset ELSE Ok(array.ticks[offset.val + 1])

\* TickArray::update_tick: the array after the update, or the error.
TickArray_update_tick(array, tick, spacing, upd) ==
    LET offset == TickArray_tick_offset(array, tick, spacing)
    IN IF ~offset.ok THEN offset
       ELSE Ok([array EXCEPT !.ticks[offset.val + 1] =
                                 [initialized |-> upd.initialized]])

\* The scan of TickArray::get_next_init_tick_index from a chunk-local offset.
RECURSIVE ScanTicks(_, _, _, _)
ScanTicks(array, curr_offset, spacing, atob) ==
    IF curr_offset < 0 \/ curr_offset >= TICK_ARRAY_SIZE THEN None
    ELSE IF array.ticks[curr_offset + 1].initialized
    THEN Some(curr_offset * spacing + array.start_tick_index)
    ELSE ScanTicks(array, IF atob THEN curr_offset - 1 ELSE curr_offset + 1,
                   spacing, atob)

\* TickArray::get_next_init_tick_index: the search starts at the offset that
\* holds tick when moving down (inclusive) and one above it when moving up.
TickArray_get_next_init_tick_index(array, tick, spacing, atob) ==
    IF ~in_search_range(array, tick, spacing, ~atob)
    THEN Err("InvalidTickArraySequence")
    ELSE LET offset == (tick - array.start_tick_index) \div spacing
         IN Ok(ScanTicks(array, IF atob THEN offset ELSE offset + 1,
                         spacing, atob))

\* TickArray::is_min_tick_array
is_min_tick_array(array) == array.start_tick_index <= MIN_TICK_INDEX

\* TickArray::is_max_tick_array
is_max_tick_array(array, spacing) ==
    array.start_tick_index + TICK_ARRAY_SIZE * spacing > MAX_TICK_INDEX

--------------------------------------------------------------------------
(* util/swap_tick_sequence.rs *)

\* SwapTickSequence::new holds at most ta0, ta1 and ta2.
MAX_ARRAYS == 3

get_tick(arrs, index, tick, spacing) ==
    IF index < Len(arrs)
    THEN TickArray_get_tick(arrs[index + 1], tick, spacing)
    ELSE Err("TickArrayIndexOutofBounds")

\* A build of update_tick that updates the last chunk when the index is past
\* the loaded chunks.
update_tick_clamped(arrs, index, tick, spacing, upd) ==
    LET i == IF index < Len(arrs) THEN index + 1 ELSE Len(arrs)
        r == TickArray_update_tick(arrs[i], tick, spacing, upd)
    IN IF r.ok
       THEN [ret |-> Ok(0), arrays |-> [arrs EXCEPT ![i] = r.val]]
       ELSE [ret |-> r, arrays |-> arrs]

\* update_tick: the returned value and the arrays it leaves behind.
update_tick(arrs, index, tick, spacing, upd) ==
    IF index < Len(arrs)
    THEN LET r == TickArray_update_tick(arrs[index + 1], tick, spacing, upd)
         IN IF r.ok
            THEN [ret |-> Ok(0), arrays |-> [arrs EXCEPT ![index + 1] = r.val]]
            ELSE [ret |-> r, arrays |-> arrs]
    ELSE [ret |-> Err("TickArrayIndexOutofBounds"), arrays |-> arrs]

get_tick_offset(arrs, index, tick, spacing) ==
    IF index < Len(arrs)
    THEN TickArray_tick_offset(arrs[index + 1], tick, spacing)
    ELSE Err("TickArrayIndexOutofBounds")

\* One query of the loop, as get_next_initialized_tick_index records it.
Query(index, search_index, found) ==
    [array_index |-> index, search_index |-> search_index, found |-> found]

\* The loop of get_next_initialized_tick_index from array_index on: the
\* returned value and the queries made, in order.
\* A build of the loop that applies the last-loaded-chunk rule before the
\* min/max rule.
RECURSIVE get_next_initialized_tick_index_loop_last_first(_, _, _, _, _, _)
get_next_initialized_tick_index_loop_last_first(arrs, search_index, spacing, atob, index, qs) ==
    IF index >= Len(arrs)
    THEN [ret |-> Err("TickArraySequenceInvalidIndex"), queried |-> qs]
    ELSE
    LET ticks_in_array == TICK_ARRAY_SIZE * spacing
        next_array == arrs[index + 1]
        next_index == TickArray_get_next_init_tick_index(next_array, search_index,
                                                         spacing, atob)
        qs2 == Append(qs, Query(index, search_index, next_index))
    IN IF ~next_index.ok THEN [ret |-> next_index, queried |-> qs2]
       ELSE IF next_index.val.some
       THEN [ret |-> Ok(<<index, next_index.val.val>>), queried |-> qs2]
       ELSE IF index + 1 = Len(arrs)
       THEN IF atob
            THEN [ret |-> Ok(<<index, next_array.start_tick_index>>),
                  queried |-> qs2]
            ELSE [ret |-> Ok(<<index, next_array.start_tick_index
                                      + ticks_in_array - 1>>),
                  queried |-> qs2]
       ELSE IF atob /\ is_min_tick_array(next_array)
       THEN [ret |-> Ok(<<index, MIN_TICK_INDEX>>), queried |-> qs2]
       ELSE IF ~atob /\ is_max_tick_array(next_array, spacing)
       THEN [ret |-> Ok(<<index, MAX_TICK_INDEX>>), queried |-> qs2]
       ELSE get_next_initialized_tick_index_loop_last_first(
                arrs,
                IF atob THEN next_array.start_tick_index - 1
                        ELSE next_array.start_tick_index + ticks_in_array - 1,
                spacing, atob, index + 1, qs2)


\* A build of the loop that reports an index past the loaded chunks with the
\* error of the dispatching methods.
RECURSIVE get_next_initialized_tick_index_loop_wrong_error(_, _, _, _, _, _)
get_next_initialized_tick_index_loop_wrong_error(arrs, search_index, spacing, atob, index, qs) ==
    IF index >= Len(arrs)
    THEN [ret |-> Err("TickArrayIndexOutofBounds"), queried |-> qs]
    ELSE
    LET ticks_in_array == TICK_ARRAY_SIZE * spacing
        next_array == arrs[index + 1]
        next_index == TickArray_get_next_init_tick_index(next_array, search_index,
                                                         spacing, atob)
        qs2 == Append(qs, Query(index, search_index, next_index))
    IN IF ~next_index.ok THEN [ret |-> next_index, queried |-> qs2]
       ELSE IF next_index.val.some
       THEN [ret |-> Ok(<<index, next_index.val.val>>), queried |-> qs2]
       ELSE IF atob /\ is_min_tick_array(next_array)
       THEN [ret |-> Ok(<<index, MIN_TICK_INDEX>>), queried |-> qs2]
       ELSE IF ~atob /\ is_max_tick_array(next_array, spacing)
       THEN [ret |-> Ok(<<index, MAX_TICK_INDEX>>), queried |-> qs2]
       ELSE IF index + 1 = Len(arrs)
       THEN IF atob
            THEN [ret |-> Ok(<<index, next_array.start_tick_index>>),
                  queried |-> qs2]
            ELSE [ret |-> Ok(<<index, next_array.start_tick_index
                                      + ticks_in_array - 1>>),
                  queried |-> qs2]
       ELSE get_next_initialized_tick_index_loop_wrong_error(
                arrs,
                IF atob THEN next_array.start_tick_index - 1
                        ELSE next_array.start_tick_index + ticks_in_array - 1,
                spacing, atob, index + 1, qs2)


\* A build of the loop without the rule for the last loaded chunk.
RECURSIVE get_next_initialized_tick_index_loop_no_last_rule(_, _, _, _, _, _)
get_next_initialized_tick_index_loop_no_last_rule(arrs, search_index, spacing, atob, index, qs) ==
    IF index >= Len(arrs)
    THEN [ret |-> Err("TickArraySequenceInvalidIndex"), queried |-> qs]
    ELSE
    LET ticks_in_array == TICK_ARRAY_SIZE * spacing
        next_array == arrs[index + 1]
        next_index == TickArray_get_next_init_tick_index(next_array, search_index,
                                                         spacing, atob)
        qs2 == Append(qs, Query(index, search_index, next_index))
    IN IF ~next_index.ok THEN [ret |-> next_index, queried |-> qs2]
       ELSE IF next_index.val.some
       THEN [ret |-> Ok(<<index, next_index.val.val>>), queried |-> qs2]
       ELSE IF atob /\ is_min_tick_array(next_array)
       THEN [ret |-> Ok(<<index, MIN_TICK_INDEX>>), queried |-> qs2]
       ELSE IF ~atob /\ is_max_tick_array(next_array, spacing)
       THEN [ret |-> Ok(<<index, MAX_TICK_INDEX>>), queried |-> qs2]
       ELSE get_next_initialized_tick_index_loop_no_last_rule(
                arrs,
                IF atob THEN next_array.start_tick_index - 1
                        ELSE next_array.start_tick_index + ticks_in_array - 1,
                spacing, atob, index + 1, qs2)


\* A build of the loop that moves on to the next chunk without moving the
\* search position out of the chunk it leaves.
RECURSIVE get_next_initialized_tick_index_loop_no_reset(_, _, _, _, _, _)
get_next_initialized_tick_index_loop_no_reset(arrs, search_index, spacing, atob, index, qs) ==
    IF index >= Len(arrs)
    THEN [ret |-> Err("TickArraySequenceInvalidIndex"), queried |-> qs]
    ELSE
    LET ticks_in_array == TICK_ARRAY_SIZE * spacing
        next_array == arrs[index + 1]
        next_index == TickArray_get_next_init_tick_index(next_array, search_index,
                                                         spacing, atob)
        qs2 == Append(qs, Query(index, search_index, next_index))
    IN IF ~next_index.ok THEN [ret |-> next_index, queried |-> qs2]
       ELSE IF next_index.val.some
       THEN [ret |-> Ok(<<index, next_index.val.val>>), queried |-> qs2]
       ELSE IF atob /\ is_min_tick_array(next_array)
       THEN [ret |-> Ok(<<index, MIN_TICK_INDEX>>), queried |-> qs2]
       ELSE IF ~atob /\ is_max_tick_array(next_array, spacing)
       THEN [ret |-> Ok(<<index, MAX_TICK_INDEX>>), queried |-> qs2]
       ELSE IF index + 1 = Len(arrs)
       THEN IF atob
            THEN [ret |-> Ok(<<index, next_array.start_tick_index>>),
                  queried |-> qs2]
            ELSE [ret |-> Ok(<<index, next_array.start_tick_index
                                      + ticks_in_array - 1>>),
                  queried |-> qs2]
       ELSE get_next_initialized_tick_index_loop_no_reset(
                arrs,
                IF atob THEN next_array.start_tick_index
                        ELSE next_array.start_tick_index + ticks_in_array - 1
                             - spacing,
                spacing, atob, index + 1, qs2)


RECURSIVE get_next_initialized_tick_index_loop(_, _, _, _, _, _)
get_next_initialized_tick_index_loop(arrs, search_index, spacing, atob, index, qs) ==
    IF index >= Len(arrs)
    THEN [ret |-> Err("TickArraySequenceInvalidIndex"), queried |-> qs]
    ELSE
    LET ticks_in_array == TICK_ARRAY_SIZE * spacing
        next_array == arrs[index + 1]
        next_index == TickArray_get_next_init_tick_index(next_array, search_index,
                                                         spacing, atob)
        qs2 == Append(qs, Query(index, search_index, next_index))
    IN IF ~next_index.ok THEN [ret |-> next_index, queried |-> qs2]
       ELSE IF next_index.val.some
       THEN [ret |-> Ok(<<index, next_index.val.val>>), queried |-> qs2]
       ELSE IF atob /\ is_min_tick_array(next_array)
       THEN [ret |-> Ok(<<index, MIN_TICK_INDEX>>), queried |-> qs2]
       ELSE IF ~atob /\ is_max_tick_array(next_array, spacing)
       THEN [ret |-> Ok(<<index, MAX_TICK_INDEX>>), queried |-> qs2]
       ELSE IF index + 1 = Len(arrs)
       THEN IF atob
            THEN [ret |-> Ok(<<index, next_array.start_tick_index>>),
                  queried |-> qs2]
            ELSE [ret |-> Ok(<<index, next_array.start_tick_index
                                      + ticks_in_array - 1>>),
                  queried |-> qs2]
       ELSE get_next_initialized_tick_index_loop(
                arrs,
                IF atob THEN next_array.start_tick_index - 1
                        ELSE next_array.start_tick_index + ticks_in_array - 1,
                spacing, atob, index + 1, qs2)

\* A build of get_next_initialized_tick_index whose search leaves out the
\* starting tick in both directions.
get_next_initialized_tick_index_exclusive(arrs, tick, spacing, atob, start_array_index) ==
    get_next_initialized_tick_index_loop(
        arrs, IF atob THEN tick - spacing ELSE tick, spacing, atob,
        start_array_index, <<>>)

\* A build of get_next_initialized_tick_index whose search takes in the
\* starting tick in both directions.
get_next_initialized_tick_index_inclusive(arrs, tick, spacing, atob, start_array_index) ==
    get_next_initialized_tick_index_loop(
        arrs, IF atob THEN tick ELSE tick - spacing, spacing, atob,
        start_array_index, <<>>)

get_next_initialized_tick_index(arrs, tick, spacing, atob, start_array_index) ==
    get_next_initialized_tick_index_loop(arrs, tick, spacing, atob,
                                         start_array_index, <<>>)

--------------------------------------------------------------------------
(* Specifications of the bit_math.rs primitives: one call on arbitrary    *)
(* arguments of the declared widths.                                      *)

MathIdle ==
    /\ n0 = 0 /\ n1 = 0 /\ d = 0 /\ round_up = FALSE /\ result = Ok(0)

PriceArgsIdle ==
    /\ sqrt_price = 0 /\ liquidity = 0 /\ amount = 0
    /\ amount_specified_is_input = FALSE
    /\ next_sqrt_price = Ok(0)

PriceIdle == PriceArgsIdle /\ a_to_b = FALSE

TickIdle ==
    /\ array_index = 0 /\ tick_index = 0 /\ update = [initialized |-> FALSE]
    /\ tick_ret = Ok(0) /\ queried = <<>> /\ scan_from = 0 /\ visited = <<>>

OpenIdle ==
    /\ tick_lower_index = 0 /\ tick_upper_index = 0 /\ open_ret = Ok(0)

NoIteration ==
    [amount |-> 0, sqrt_price |-> 0, tick_index |-> 0, next_tick_index |-> 0,
     next_tick_sqrt_price |-> 0, initialized |-> FALSE]

SwapIdle ==
    /\ sqrt_price_limit = 0 /\ iterations = 0 /\ before = NoIteration

DeltaIdle ==
    /\ price_0 = 0 /\ price_1 = 0 /\ amount_delta = Ok(0)

Init ==
    /\ pc = "idle"
    /\ MathIdle
    /\ PriceIdle
    /\ tick_spacing = 1 /\ arrays = <<>>
    /\ TickIdle
    /\ OpenIdle
    /\ SwapIdle
    /\ DeltaIdle

\* The divisors tried: those within one word of either end of u128.
Divisors == {x \in U128 : x <= TO_Q64 \/ x >= U128_MAX - TO_Q64}

CallMulDiv ==
    /\ pc = "idle"
    /\ \E x0 \in U128, x1 \in U128, dd \in Divisors, up \in BOOLEAN :
          /\ n0' = x0 /\ n1' = x1 /\ d' = dd /\ round_up' = up
          /\ result' = checked_mul_div_round_up_if(x0, x1, dd, up)
    /\ pc' = "checked_mul_div_round_up_if"
    /\ UNCHANGED <<priceVars, a_to_b, poolVars, tickVars, openVars, swapVars,
                   deltaVars>>

CallMulShiftRight ==
    /\ pc = "idle"
    /\ \E x0 \in U128, x1 \in U128, up \in BOOLEAN :
          /\ n0' = x0 /\ n1' = x1 /\ d' = 0 /\ round_up' = up
          /\ result' = checked_mul_shift_right_round_up_if(x0, x1, up)
    /\ pc' = "checked_mul_shift_right_round_up_if"
    /\ UNCHANGED <<priceVars, a_to_b, poolVars, tickVars, openVars, swapVars,
                   deltaVars>>

SpecMulDiv == Init /\ [][CallMulDiv]_vars

SpecMulShift == Init /\ [][CallMulShiftRight]_vars

--------------------------------------------------------------------------
(* Specification of token_math.rs: one call of get_next_sqrt_price.       *)

CallNextSqrtPrice ==
    /\ pc = "idle"
    /\ \E p \in U128, liq \in U128, amt \in U64,
          is_input \in BOOLEAN, atob \in BOOLEAN :
          /\ sqrt_price' = p /\ liquidity' = liq /\ amount' = amt
          /\ amount_specified_is_input' = is_input /\ a_to_b' = atob
          /\ next_sqrt_price' = get_next_sqrt_price(p, liq, amt, is_input, atob)
    /\ pc' = "get_next_sqrt_price"
    /\ UNCHANGED <<mathVars, poolVars, tickVars, openVars, swapVars,
                   deltaVars>>

SpecPrice == Init /\ [][CallNextSqrtPrice]_vars

--------------------------------------------------------------------------
(* Specification of token_math.rs: one call of get_amount_delta_a or of   *)
(* get_amount_delta_b, and then one call of get_next_sqrt_price that      *)
(* feeds the returned amount back, from one of the two prices towards the *)
(* other, with the token of the amount as the fixed token.                *)

\* The prices tried: up to a little above one, the greatest price of a
\* pool, and the greatest values of the type.
DeltaPrices ==
    {x \in U128 : \/ x <= TO_Q64 + 2
                  \/ x = MAX_SQRT_PRICE_X64
                  \/ x >= U128_MAX - 1}

\* The liquidities tried: up to a little above one word, some multiples of
\* it, and the greatest values of the type.
DeltaLiquidities ==
    {x \in U128 : \/ x <= TO_Q64 + 1
                  \/ x = 2 * TO_Q64
                  \/ x = 4 * TO_Q64
                  \/ x >= U128_MAX - 1}

CallAmountDeltaA ==
    /\ pc = "idle"
    /\ \E p0 \in DeltaPrices, p1 \in DeltaPrices, liq \in DeltaLiquidities,
          up \in BOOLEAN :
          /\ price_0' = p0 /\ price_1' = p1 /\ liquidity' = liq
          /\ round_up' = up
          /\ amount_delta' = get_amount_delta_a(p0, p1, liq, up)
    /\ pc' = "get_amount_delta_a"
    /\ UNCHANGED <<n0, n1, d, result, sqrt_price, amount,
                   amount_specified_is_input, next_sqrt_price, a_to_b,
                   poolVars, tickVars, openVars, swapVars>>

CallAmountDeltaB ==
    /\ pc = "idle"
    /\ \E p0 \in DeltaPrices, p1 \in DeltaPrices, liq \in DeltaLiquidities,
          up \in BOOLEAN :
          /\ price_0' = p0 /\ price_1' = p1 /\ liquidity' = liq
          /\ round_up' = up
          /\ amount_delta' = get_amount_delta_b(p0, p1, liq, up)
    /\ pc' = "get_amount_delta_b"
    /\ UNCHANGED <<n0, n1, d, result, sqrt_price, amount,
                   amount_specified_is_input, next_sqrt_price, a_to_b,
                   poolVars, tickVars, openVars, swapVars>>

\* The returned amount is fed back: from the upper price down (a_to_b) or
\* from the lower price up. An amount of token A is the input of an a_to_b
\* trade and the output of the other; an amount of token B the reverse.
FeedAmountBack ==
    /\ pc \in {"get_amount_delta_a", "get_amount_delta_b"}
    /\ amount_delta.ok
    /\ \E atob \in BOOLEAN :
          LET ord == increasing_price_order(price_0, price_1)
              from == IF atob THEN ord[2] ELSE ord[1]
              is_input == IF pc = "get_amount_delta_a" THEN atob ELSE ~atob
          IN /\ sqrt_price' = from
             /\ amount' = amount_delta.val
             /\ amount_specified_is_input' = is_input
             /\ a_to_b' = atob
             /\ next_sqrt_price' =
                    get_next_sqrt_price(from, liquidity, amount_delta.val,
                                        is_input, atob)
    /\ pc' = IF pc = "get_amount_delta_a" THEN "round_trip_a"
                                          ELSE "round_trip_b"
    /\ UNCHANGED <<mathVars, liquidity, poolVars, tickVars, openVars,
                   swapVars, deltaVars>>

NextDelta == CallAmountDeltaA \/ CallAmountDeltaB \/ FeedAmountBack

SpecDelta == Init /\ [][NextDelta]_vars

--------------------------------------------------------------------------
(* Specifications of util/swap_tick_sequence.rs: a pool with some ticks   *)
(* initialized, a sequence of one to three of its tick arrays (each       *)
(* borrowed once, in any order), and one call of a method.                *)

\* The sequences of one to MAX_ARRAYS distinct elements of S.
DistinctSeqs(S) ==
    {q \in UNION {[1 .. n -> S] : n \in 1 .. MAX_ARRAYS} :
        \A i, j \in DOMAIN q : i # j => q[i] # q[j]}

\* The tick indices and array indices handed to the methods.
TickIndices == (MIN_TICK_INDEX - 2) .. (MAX_TICK_INDEX + 1)

ArrayIndices == 0 .. MAX_ARRAYS

InitTicks ==
    /\ pc = "idle"
    /\ MathIdle
    /\ PriceIdle
    /\ TickIdle
    /\ OpenIdle
    /\ SwapIdle
    /\ DeltaIdle
    /\ tick_spacing \in TickSpacings
    /\ \E init \in SUBSET UsableTicks(tick_spacing),
          starts \in DistinctSeqs(ValidStartTicks(tick_spacing)) :
          arrays = [i \in DOMAIN starts |->
                       TickArrayOf(starts[i], tick_spacing, init)]

GetNextInitializedTickIndex ==
    /\ pc = "idle"
    /\ \E t \in TickIndices, atob \in BOOLEAN, start \in ArrayIndices :
          LET r == get_next_initialized_tick_index(arrays, t, tick_spacing,
                                                   atob, start)
          IN /\ tick_index' = t /\ a_to_b' = atob /\ array_index' = start
             /\ tick_ret' = r.ret
             /\ queried' = r.queried
    /\ pc' = "get_next_initialized_tick_index"
    /\ UNCHANGED <<mathVars, priceVars, poolVars, update, scan_from, visited,
                   openVars, swapVars, deltaVars>>

GetTick ==
    /\ pc = "idle"
    /\ \E t \in TickIndices, index \in ArrayIndices :
          /\ tick_index' = t /\ array_index' = index
          /\ tick_ret' = get_tick(arrays, index, t, tick_spacing)
    /\ pc' = "get_tick"
    /\ UNCHANGED <<mathVars, priceVars, a_to_b, poolVars, update, queried,
                   scan_from, visited, openVars, swapVars, deltaVars>>

UpdateTick ==
    /\ pc = "idle"
    /\ \E t \in TickIndices, index \in ArrayIndices, init \in BOOLEAN :
          LET upd == [initialized |-> init]
              r == update_tick(arrays, index, t, tick_spacing, upd)
          IN /\ tick_index' = t /\ array_index' = index /\ update' = upd
             /\ tick_ret' = r.ret
             /\ arrays' = r.arrays
    /\ pc' = "update_tick"
    /\ UNCHANGED <<mathVars, priceVars, a_to_b, tick_spacing, queried,
                   scan_from, visited, openVars, swapVars, deltaVars>>

GetTickOffset ==
    /\ pc = "idle"
    /\ \E t \in TickIndices, index \in ArrayIndices :
          /\ tick_index' = t /\ array_index' = index
          /\ tick_ret' = get_tick_offset(arrays, index, t, tick_spacing)
    /\ pc' = "get_tick_offset"
    /\ UNCHANGED <<mathVars, priceVars, a_to_b, poolVars, update, queried,
                   scan_from, visited, openVars, swapVars, deltaVars>>

SpecSearch == InitTicks /\ [][GetNextInitializedTickIndex]_vars

NextDispatch == GetTick \/ UpdateTick \/ GetTickOffset

SpecDispatch == InitTicks /\ [][NextDispatch]_vars

--------------------------------------------------------------------------
(* Specification of a repeated search: one loaded chunk, searched again   *)
(* and again in one direction, each search restarted just past the tick   *)
(* the last one returned (the position the swap loop moves to after a     *)
(* tick: one below it when a_to_b, the tick itself when not, the start    *)
(* being exclusive then), until a search returns no further initialized   *)
(* tick of the chunk.                                                     *)

\* The index of the chunk's last tick.
LastTickOf(array, spacing) ==
    array.start_tick_index + (TICK_ARRAY_SIZE - 1) * spacing

\* The first search positions tried: from the chunk's last tick up to its
\* last position when a_to_b, from one spacing below its first tick up to
\* its first tick when not.
ScanStarts(array, spacing, atob) ==
    IF atob
    THEN LastTickOf(array, spacing)
             .. (array.start_tick_index + TICK_ARRAY_SIZE * spacing - 1)
    ELSE (array.start_tick_index - spacing) .. array.start_tick_index

InitScan ==
    /\ pc = "scan"
    /\ MathIdle
    /\ PriceArgsIdle
    /\ OpenIdle
    /\ SwapIdle
    /\ DeltaIdle
    /\ tick_spacing \in TickSpacings
    /\ \E init \in SUBSET UsableTicks(tick_spacing),
          start \in ValidStartTicks(tick_spacing) :
          arrays = <<TickArrayOf(start, tick_spacing, init)>>
    /\ a_to_b \in BOOLEAN
    /\ scan_from \in ScanStarts(arrays[1], tick_spacing, a_to_b)
    /\ tick_index = scan_from
    /\ array_index = 0 /\ update = [initialized |-> FALSE]
    /\ tick_ret = Ok(0) /\ queried = <<>> /\ visited = <<>>

\* The search returned an initialized tick of the chunk that lies in the
\* search direction from the search position.
ReturnedNextTick(r, array, from, atob) ==
    /\ r.ok
    /\ r.val[2] >= array.start_tick_index
    /\ r.val[2] <= LastTickOf(array, tick_spacing)
    /\ (r.val[2] - array.start_tick_index) % tick_spacing = 0
    /\ array.ticks[(r.val[2] - array.start_tick_index) \div tick_spacing + 1]
           .initialized
    /\ IF atob THEN r.val[2] <= from ELSE r.val[2] > from

ScanStep ==
    /\ pc = "scan"
    /\ LET r == get_next_initialized_tick_index(arrays, tick_index, tick_spacing,
                                                a_to_b, array_index)
       IN /\ tick_ret' = r.ret
          /\ queried' = r.queried
          /\ IF ReturnedNextTick(r.ret, arrays[1], tick_index, a_to_b)
             THEN /\ visited' = Append(visited, r.ret.val[2])
                  /\ tick_index' = IF a_to_b THEN r.ret.val[2] - 1
                                             ELSE r.ret.val[2]
                  /\ pc' = "scan"
             ELSE /\ pc' = "exhausted"
                  /\ UNCHANGED <<visited, tick_index>>
    /\ UNCHANGED <<mathVars, priceVars, a_to_b, poolVars, array_index, update,
                   scan_from, openVars, swapVars, deltaVars>>

SpecScan == InitScan /\ [][ScanStep]_vars

--------------------------------------------------------------------------
(* Specification of lib.rs: one call of open_position or of               *)
(* open_position_with_metadata on a pool with some tick spacing.          *)

\* whirlpool::open_position
open_position(lower, upper, spacing) == Ok(0)

\* whirlpool::open_position_with_metadata
open_position_with_metadata(lower, upper, spacing) == Ok(0)

InitOpen ==
    /\ pc = "idle"
    /\ MathIdle
    /\ PriceIdle
    /\ TickIdle
    /\ OpenIdle
    /\ SwapIdle
    /\ DeltaIdle
    /\ tick_spacing \in TickSpacings
    /\ arrays = <<>>

OpenPosition ==
    /\ pc = "idle"
    /\ \E lower \in TickIndices, upper \in TickIndices :
          /\ tick_lower_index' = lower /\ tick_upper_index' = upper
          /\ open_ret' = open_position(lower, upper, tick_spacing)
    /\ pc' = "open_position"
    /\ UNCHANGED <<mathVars, priceVars, a_to_b, poolVars, tickVars, swapVars,
                   deltaVars>>

OpenPositionWithMetadata ==
    /\ pc = "idle"
    /\ \E lower \in TickIndices, upper \in TickIndices :
          /\ tick_lower_index' = lower /\ tick_upper_index' = upper
          /\ open_ret' = open_position_with_metadata(lower, upper, tick_spacing)
    /\ pc' = "open_position_with_metadata"
    /\ UNCHANGED <<mathVars, priceVars, a_to_b, poolVars, tickVars, swapVars,
                   deltaVars>>

NextOpen == OpenPosition \/ OpenPositionWithMetadata

SpecOpen == InitOpen /\ [][NextOpen]_vars

--------------------------------------------------------------------------
(* The swap loop. lib.rs hands swap to instructions::swap::handler, which *)
(* is not among the sources; the loop below follows the description of    *)
(* the swap execution loop, over the source's get_next_initialized_tick_  *)
(* index, get_tick, update_tick, get_tick_offset, get_amount_delta_a/b    *)
(* and get_next_sqrt_price. The fee rate of the pool is zero, and a       *)
(* crossed tick may carry any liquidity-net.                              *)

\* The price of a tick: strictly increasing, MIN_SQRT_PRICE_X64 at
\* MIN_TICK_INDEX, one (TO_Q64) at tick 0, MAX_SQRT_PRICE_X64 at
\* MAX_TICK_INDEX.
sqrt_price_from_tick_index(tick) ==
    IF tick <= 0
    THEN TO_Q64 - ((-tick) * (TO_Q64 - MIN_SQRT_PRICE_X64)) \div MAX_TICK_INDEX
    ELSE TO_Q64 + (tick * (MAX_SQRT_PRICE_X64 - TO_Q64)) \div MAX_TICK_INDEX

\* The greatest tick whose price is at most price.
tick_index_from_sqrt_price(price) ==
    CHOOSE t \in MIN_TICK_INDEX .. MAX_TICK_INDEX :
        /\ sqrt_price_from_tick_index(t) <= price
        /\ t < MAX_TICK_INDEX => sqrt_price_from_tick_index(t + 1) > price

\* The amount of the token the caller fixed between two prices: rounded up
\* when it is the input.
get_amount_fixed_delta(price_current, price_target, liq, is_input, atob) ==
    IF atob = is_input
    THEN get_amount_delta_a(price_current, price_target, liq, is_input)
    ELSE get_amount_delta_b(price_current, price_target, liq, is_input)

\* The amount of the other token between two prices.
get_amount_unfixed_delta(price_current, price_target, liq, is_input, atob) ==
    IF atob = is_input
    THEN get_amount_delta_b(price_current, price_target, liq, ~is_input)
    ELSE get_amount_delta_a(price_current, price_target, liq, ~is_input)

\* compute_swap, once its amounts are known: the cap of the output at the
\* amount asked for, and the rest of the input of a step that stops short
\* of its target, which is taken as fee.
compute_swap_result(next, unfixed, refixed, amount_remaining, price_target, is_input) ==
    LET is_max_swap == next.val = price_target
        amount_in == IF is_input THEN refixed.val ELSE unfixed.val
        amount_out == IF is_input THEN unfixed.val
                      ELSE IF refixed.val > amount_remaining
                      THEN amount_remaining ELSE refixed.val
        fee_amount == IF is_input /\ ~is_max_swap
                      THEN amount_remaining - amount_in ELSE 0
    IN IF ~unfixed.ok THEN unfixed
       ELSE IF ~refixed.ok THEN refixed
       ELSE Ok([amount_in |-> amount_in, amount_out |-> amount_out,
                next_price |-> next.val, fee_amount |-> fee_amount])

\* compute_swap, once the price the step reaches is known: the amounts
\* between the current price and that price.
compute_swap_amounts(fixed, next, amount_remaining, liq, price_current, price_target, is_input, atob) ==
    IF ~next.ok THEN next
    ELSE compute_swap_result(
             next,
             get_amount_unfixed_delta(price_current, next.val, liq, is_input,
                                      atob),
             IF next.val = price_target THEN fixed
             ELSE get_amount_fixed_delta(price_current, next.val, liq,
                                         is_input, atob),
             amount_remaining, price_target, is_input)

\* compute_swap, once the amount that reaches the target is known: the
\* target when the remaining amount covers it, else the price the remaining
\* amount reaches.
compute_swap_price(fixed, amount_remaining, liq, price_current, price_target, is_input, atob) ==
    IF ~fixed.ok THEN fixed
    ELSE compute_swap_amounts(
             fixed,
             IF amount_remaining >= fixed.val
             THEN Ok(price_target)
             ELSE get_next_sqrt_price(price_current, liq, amount_remaining,
                                      is_input, atob),
             amount_remaining, liq, price_current, price_target, is_input,
             atob)

\* One step of the swap towards the bounded target price: the price reached
\* and the amounts moved.
compute_swap(amount_remaining, liq, price_current, price_target, is_input, atob) ==
    compute_swap_price(
        get_amount_fixed_delta(price_current, price_target, liq, is_input,
                               atob),
        amount_remaining, liq, price_current, price_target, is_input, atob)

\* The caller's limit when the next tick's price lies beyond it, else the
\* next tick's price.
bounded_sqrt_price_target(next_tick_sqrt_price, limit, atob) ==
    IF atob
    THEN IF limit > next_tick_sqrt_price THEN limit ELSE next_tick_sqrt_price
    ELSE IF limit < next_tick_sqrt_price THEN limit ELSE next_tick_sqrt_price

\* The end of an iteration, once its step is computed: the amount is
\* reduced and the price moved; when the price reached the next tick, the
\* tick is crossed if it is initialized, and the tick index and the chunk
\* index move past it.
swap_advance(arrs, spacing, amount_remaining, curr_sqrt_price, curr_tick_index, curr_array_index, atob, is_input, found, computation) ==
    LET next_array_index == found.val[1]
        next_tick_index == found.val[2]
        next_tick_sqrt_price == sqrt_price_from_tick_index(next_tick_index)
        next_price == computation.val.next_price
        consumed == IF is_input
                    THEN computation.val.amount_in + computation.val.fee_amount
                    ELSE computation.val.amount_out
        next_tick == get_tick(arrs, next_array_index, next_tick_index, spacing)
        next_tick_initialized == next_tick.ok /\ next_tick.val.initialized
        crossed == update_tick(arrs, next_array_index, next_tick_index, spacing,
                               [initialized |-> TRUE])
        tick_offset == get_tick_offset(arrs, next_array_index, next_tick_index,
                                       spacing)
        aimed == [next_tick_index |-> next_tick_index,
                  next_tick_sqrt_price |-> next_tick_sqrt_price,
                  initialized |-> next_tick_initialized]
    IN IF ~computation.ok THEN computation
       ELSE IF consumed > amount_remaining THEN Err("AmountRemainingOverflow")
       ELSE IF next_price = next_tick_sqrt_price
       THEN IF next_tick_initialized /\ ~crossed.ret.ok THEN crossed.ret
            ELSE IF ~tick_offset.ok THEN tick_offset
            ELSE Ok([amount |-> amount_remaining - consumed,
                     sqrt_price |-> next_price,
                     tick_index |-> IF atob THEN next_tick_index - 1
                                            ELSE next_tick_index,
                     array_index |->
                         IF \/ atob /\ tick_offset.val = 0
                            \/ ~atob /\ tick_offset.val = TICK_ARRAY_SIZE - 1
                         THEN next_array_index + 1 ELSE next_array_index,
                     crossed |-> next_tick_initialized,
                     aimed |-> aimed])
       ELSE Ok([amount |-> amount_remaining - consumed,
                sqrt_price |-> next_price,
                tick_index |-> IF next_price # curr_sqrt_price
                               THEN tick_index_from_sqrt_price(next_price)
                               ELSE curr_tick_index,
                array_index |-> curr_array_index,
                crossed |-> FALSE,
                aimed |-> aimed])

\* The step of an iteration, once the next tick is found: towards the
\* price of that tick, bounded by the caller's limit.
swap_step(arrs, spacing, amount_remaining, curr_sqrt_price, curr_tick_index, curr_array_index, liq, limit, is_input, atob, found) ==
    IF ~found.ok THEN found
    ELSE swap_advance(
             arrs, spacing, amount_remaining, curr_sqrt_price, curr_tick_index,
             curr_array_index, atob, is_input, found,
             compute_swap(amount_remaining, liq, curr_sqrt_price,
                          bounded_sqrt_price_target(
                              sqrt_price_from_tick_index(found.val[2]), limit,
                              atob),
                          is_input, atob))

\* The state one iteration of the loop leaves, or the error that ends the
\* swap: the remaining amount, the price, the tick index and the chunk
\* index, whether a tick was crossed, and the tick the iteration aimed at.
swap_iteration(arrs, spacing, amount_remaining, curr_sqrt_price, curr_tick_index, curr_array_index, liq, limit, is_input, atob) ==
    swap_step(arrs, spacing, amount_remaining, curr_sqrt_price, curr_tick_index,
              curr_array_index, liq, limit, is_input, atob,
              get_next_initialized_tick_index(arrs, curr_tick_index, spacing,
                                              atob, curr_array_index).ret)

\* The liquidity, amounts and price limits tried.
Liquidities == {1, 2 * TO_Q64}

Amounts == {1, U64_MAX}

PriceLimits == {MIN_SQRT_PRICE_X64, TO_Q64, MAX_SQRT_PRICE_X64}

\* The prices a pool is started at: the price of a tick and the price next
\* above it.
PoolPrices ==
    {p \in MIN_SQRT_PRICE_X64 .. MAX_SQRT_PRICE_X64 :
        p - sqrt_price_from_tick_index(tick_index_from_sqrt_price(p)) <= 1}

\* The tick indices a pool at price p can hold: the tick of the price, or
\* the one below it when a swap towards lower prices stopped on the tick.
PoolTicks(p) ==
    LET t == tick_index_from_sqrt_price(p)
    IN IF sqrt_price_from_tick_index(t) = p THEN {t - 1, t} ELSE {t}

\* A swap whose preconditions hold: a nonzero amount, a price limit within
\* the bounds and on the side of the price the trade moves to, and a first
\* chunk that covers the current tick.
InitSwap ==
    /\ pc = "swap"
    /\ MathIdle
    /\ OpenIdle
    /\ tick_spacing \in TickSpacings
    /\ \E init \in SUBSET UsableTicks(tick_spacing),
          starts \in DistinctSeqs(ValidStartTicks(tick_spacing)) :
          arrays = [i \in DOMAIN starts |->
                       TickArrayOf(starts[i], tick_spacing, init)]
    /\ a_to_b \in BOOLEAN
    /\ amount_specified_is_input \in BOOLEAN
    /\ sqrt_price \in PoolPrices
    /\ tick_index \in PoolTicks(sqrt_price)
    /\ in_search_range(arrays[1], tick_index, tick_spacing, ~a_to_b)
    /\ liquidity \in Liquidities
    /\ amount \in Amounts
    /\ sqrt_price_limit \in PriceLimits
    /\ IF a_to_b THEN sqrt_price_limit < sqrt_price
                 ELSE sqrt_price_limit > sqrt_price
    /\ array_index = 0
    /\ next_sqrt_price = Ok(0)
    /\ update = [initialized |-> FALSE]
    /\ tick_ret = Ok(0) /\ queried = <<>> /\ scan_from = 0 /\ visited = <<>>
    /\ iterations = 0 /\ before = NoIteration
    /\ DeltaIdle

\* One iteration of the loop, entered while an amount remains and the price
\* is not at the limit.
SwapStep ==
    /\ pc = "swap"
    /\ amount > 0 /\ sqrt_price # sqrt_price_limit
    /\ \E r \in {swap_iteration(arrays, tick_spacing, amount, sqrt_price,
                               tick_index, array_index, liquidity,
                               sqrt_price_limit, amount_specified_is_input,
                               a_to_b)} :
          IF r.ok
          THEN /\ amount' = r.val.amount
               /\ sqrt_price' = r.val.sqrt_price
               /\ tick_index' = r.val.tick_index
               /\ array_index' = r.val.array_index
               /\ liquidity' \in IF r.val.crossed THEN Liquidities \cup {0}
                                                  ELSE {liquidity}
               /\ visited' = Append(visited, r.val.aimed.next_tick_index)
               /\ before' = [amount |-> amount, sqrt_price |-> sqrt_price,
                             tick_index |-> tick_index,
                             next_tick_index |-> r.val.aimed.next_tick_index,
                             next_tick_sqrt_price |->
                                 r.val.aimed.next_tick_sqrt_price,
                             initialized |-> r.val.aimed.initialized]
               /\ iterations' = iterations + 1
               /\ tick_ret' = Ok(0)
               /\ pc' = "swap"
          ELSE /\ tick_ret' = r
               /\ pc' = "swap_failed"
               /\ UNCHANGED <<amount, sqrt_price, tick_index, array_index,
                              liquidity, visited, before, iterations>>
    /\ UNCHANGED <<mathVars, amount_specified_is_input, next_sqrt_price,
                   a_to_b, poolVars, update, queried, scan_from, openVars,
                   sqrt_price_limit, deltaVars>>

\* The loop ends: nothing remains, or the price is at the limit.
SwapExit ==
    /\ pc = "swap"
    /\ amount = 0 \/ sqrt_price = sqrt_price_limit
    /\ pc' = "swap_done"
    /\ UNCHANGED <<mathVars, priceVars, a_to_b, poolVars, tickVars, openVars,
                   swapVars, deltaVars>>

NextSwap == SwapStep \/ SwapExit

SpecSwap == InitSwap /\ [][NextSwap]_vars

--------------------------------------------------------------------------
(* C1 *)

\* The input-token amount that moves the price from sqrt_price to the
\* returned price, rounded up.
InputNeeded ==
    IF a_to_b
    THEN get_amount_delta_a(sqrt_price, next_sqrt_price.val, liquidity, TRUE)
    ELSE get_amount_delta_b(sqrt_price, next_sqrt_price.val, liquidity, TRUE)

\* The output-token amount that move releases, rounded down.
OutputReleased ==
    IF a_to_b
    THEN get_amount_delta_b(sqrt_price, next_sqrt_price.val, liquidity, FALSE)
    ELSE get_amount_delta_a(sqrt_price, next_sqrt_price.val, liquidity, FALSE)

\* The same rounded-down amount as an unbounded integer.
OutputReleasedExact ==
    LET ord == increasing_price_order(sqrt_price, next_sqrt_price.val)
    IN IF a_to_b
       THEN (liquidity * (ord[2] - ord[1])) \div TO_Q64
       ELSE (liquidity * (ord[2] - ord[1]) * TO_Q64) \div (ord[2] * ord[1])

NextPriceReturned ==
    /\ pc = "get_next_sqrt_price"
    /\ liquidity > 0
    /\ next_sqrt_price.ok

\* C1 as stated, for the prices a pool can have: whenever get_next_sqrt_price
\* succeeds with liquidity > 0, get_amount_delta_a/b returns a rounded-up
\* input amount of the move that is at most amount (fixed input), and a
\* rounded-down output amount of the move that is at least amount (fixed
\* output).
C1_AsStated ==
    (/\ NextPriceReturned
     /\ sqrt_price >= MIN_SQRT_PRICE_X64
     /\ sqrt_price <= MAX_SQRT_PRICE_X64) =>
        IF amount_specified_is_input
        THEN InputNeeded.ok /\ InputNeeded.val <= amount
        ELSE OutputReleased.ok /\ OutputReleased.val >= amount

\* C1, amended: for sqrt_price > 0, a fixed-input move never needs more than
\* amount; a fixed-output move never releases less than amount: the
\* rounded-down output is at least amount when get_amount_delta_a/b returns
\* it, and when get_amount_delta_a/b fails instead the rounded-down output
\* does not fit in 64 bits.
C1_RoundingIsSafe ==
    (NextPriceReturned /\ sqrt_price > 0) =>
        IF amount_specified_is_input
        THEN InputNeeded.ok /\ InputNeeded.val <= amount
        ELSE IF OutputReleased.ok
             THEN OutputReleased.val >= amount
             ELSE /\ OutputReleased.err \in {"MultiplicationShiftRightOverflow",
                                             "TokenMaxExceeded",
                                             "MultiplicationOverflow",
                                             "NumberDownCastError"}
                  /\ OutputReleasedExact > U64_MAX

\* A fixed-output move whose price moved and whose rounded-down output
\* exceeds the amount asked for, and none of the guards is vacuous.
C1_Witness ==
    /\ NextPriceReturned /\ sqrt_price > 0
    /\ ~amount_specified_is_input
    /\ amount > 0
    /\ next_sqrt_price.val # sqrt_price
    /\ OutputReleased.ok /\ OutputReleased.val > amount

--------------------------------------------------------------------------
(* C9 *)

MulDivReturned == pc = "checked_mul_div_round_up_if" /\ d # 0

\* floor(n0*n1/d), or ceil(n0*n1/d) when round_up, as an unbounded integer.
MulDivExact ==
    IF round_up THEN (n0 * n1 + d - 1) \div d ELSE (n0 * n1) \div d

\* C9 as stated: for d # 0, whenever floor-or-ceil(n0*n1/d) fits in 128 bits
\* checked_mul_div_round_up_if returns it, even when n0*n1 itself does not
\* fit in 128 bits.
C9_AsStated ==
    (MulDivReturned /\ MulDivExact <= U128_MAX) => result = Ok(MulDivExact)

\* C9, amended: for d # 0, checked_mul_div_round_up_if returns
\* floor-or-ceil(n0*n1/d) whenever the product n0*n1 fits in 128 bits, and
\* fails with MulDivOverflow whenever the product does not fit in 128 bits,
\* whether or not the quotient would.
C9_SingleWidthProduct ==
    MulDivReturned =>
        IF n0 * n1 <= U128_MAX
        THEN result = Ok(MulDivExact)
        ELSE result = Err("MulDivOverflow")

\* A product above 128 bits whose rounded-up quotient fits: the call fails.
C9_Witness ==
    /\ MulDivReturned
    /\ round_up /\ (n0 * n1) % d # 0
    /\ n0 * n1 > U128_MAX
    /\ MulDivExact <= U128_MAX
    /\ result = Err("MulDivOverflow")

--------------------------------------------------------------------------
(* C10 *)

MulShiftReturned == pc = "checked_mul_shift_right_round_up_if"

\* floor(n0*n1 / 2^64) as an unbounded integer.
MulShiftFloor == (n0 * n1) \div TO_Q64

\* round_up is set and one of the discarded low bits is set.
MulShiftCarry == round_up /\ (n0 * n1) % TO_Q64 # 0

\* C10: checked_mul_shift_right_round_up_if succeeds exactly when
\* floor(n0*n1 / 2^64), plus 1 when round_up is set and a discarded low bit is
\* non-zero, fits in 64 bits, and then returns that value; so it fails when
\* the shifted product does not fit and when the round-up would carry out of
\* 2^64 - 1.
C10_MulShiftRight ==
    MulShiftReturned =>
        LET exact == MulShiftFloor + (IF MulShiftCarry THEN 1 ELSE 0)
        IN /\ result.ok <=> exact <= U64_MAX
           /\ result.ok => result.val = exact
           /\ MulShiftFloor > U64_MAX => ~result.ok
           /\ (MulShiftCarry /\ MulShiftFloor = U64_MAX) => ~result.ok

\* A round-up at a truncated result of 2^64 - 1: the call fails.
C10_Witness ==
    /\ MulShiftReturned
    /\ MulShiftCarry /\ MulShiftFloor = U64_MAX
    /\ result = Err("MultiplicationOverflow")

--------------------------------------------------------------------------
(* C3 *)

SearchReturned == pc = "get_next_initialized_tick_index"

TicksInArray == TICK_ARRAY_SIZE * tick_spacing

\* Each loaded chunk from start_array_index on is followed by its neighbour
\* in the trade direction.
AdjacentInDirection ==
    \A i \in (array_index + 1) .. (Len(arrays) - 1) :
        arrays[i + 1].start_tick_index =
            arrays[i].start_tick_index
            + (IF a_to_b THEN -TicksInArray ELSE TicksInArray)

\* <<chunk position, tick>> of every initialized tick of the chunks from
\* start_array_index on that lies in the search direction from tick_index.
Candidates ==
    {c \in ((array_index + 1) .. Len(arrays)) \X
           ((MIN_TICK_INDEX - TicksInArray) .. (MAX_TICK_INDEX + TicksInArray)) :
        LET k == c[2] - arrays[c[1]].start_tick_index
        IN /\ k >= 0 /\ k < TicksInArray /\ k % tick_spacing = 0
           /\ arrays[c[1]].ticks[k \div tick_spacing + 1].initialized
           /\ IF a_to_b THEN c[2] <= tick_index ELSE c[2] > tick_index}

Nearest ==
    CHOOSE c \in Candidates :
        \A o \in Candidates : IF a_to_b THEN o[2] <= c[2] ELSE o[2] >= c[2]

C3_Pre ==
    /\ SearchReturned
    /\ array_index < Len(arrays)
    /\ AdjacentInDirection
    /\ in_search_range(arrays[array_index + 1], tick_index, tick_spacing, ~a_to_b)
    /\ Candidates # {}

\* C3: with the chunks from start_array_index on adjacent in the trade
\* direction, tick_index in the search range of the first of them and an
\* initialized tick in the search direction in one of them,
\* get_next_initialized_tick_index returns the nearest such tick and the index
\* of its chunk, having queried the chunks from start_array_index up to that
\* one in order and found nothing in those before it.
C3_NearestInitializedTick ==
    C3_Pre =>
        /\ tick_ret = Ok(<<Nearest[1] - 1, Nearest[2]>>)
        /\ Len(queried) = Nearest[1] - array_index
        /\ \A i \in 1 .. Len(queried) :
              /\ queried[i].array_index = array_index + i - 1
              /\ queried[i].found.ok
              /\ queried[i].found.val.some <=> i = Len(queried)

\* The nearest initialized tick lies two chunks on: two chunks were skipped.
C3_Witness ==
    /\ C3_Pre
    /\ Len(queried) = MAX_ARRAYS
    /\ tick_ret.ok /\ tick_ret.val[1] = MAX_ARRAYS - 1

--------------------------------------------------------------------------
(* C4 *)

\* The chunk covers the global minimum (maximum) tick.
CoversMinTick(array) ==
    /\ array.start_tick_index <= MIN_TICK_INDEX
    /\ MIN_TICK_INDEX < array.start_tick_index + TicksInArray

CoversMaxTick(array) ==
    /\ array.start_tick_index <= MAX_TICK_INDEX
    /\ MAX_TICK_INDEX < array.start_tick_index + TicksInArray

\* The i-th query found no initialized tick.
FoundNothing(i) == queried[i].found.ok /\ ~queried[i].found.val.some

\* C4: after a query of a chunk that finds no initialized tick the outcome
\* is, in this order: the global minimum tick for the minimum chunk when
\* a_to_b; the global maximum tick for the maximum chunk when not a_to_b; the
\* chunk's start tick (a_to_b) or last tick (not a_to_b) for the last loaded
\* chunk; otherwise the next chunk is queried.
C4_NotFoundOrder ==
    SearchReturned =>
        \A i \in 1 .. Len(queried) :
            FoundNothing(i) =>
                LET index == queried[i].array_index
                    array == arrays[index + 1]
                    ends == i = Len(queried)
                IN IF a_to_b /\ CoversMinTick(array)
                   THEN ends /\ tick_ret = Ok(<<index, MIN_TICK_INDEX>>)
                   ELSE IF ~a_to_b /\ CoversMaxTick(array)
                   THEN ends /\ tick_ret = Ok(<<index, MAX_TICK_INDEX>>)
                   ELSE IF index + 1 = Len(arrays)
                   THEN /\ ends
                        /\ tick_ret =
                              Ok(<<index,
                                   IF a_to_b
                                   THEN array.start_tick_index
                                   ELSE array.start_tick_index + TicksInArray - 1>>)
                   ELSE /\ ~ends
                        /\ queried[i + 1].array_index = index + 1

\* The last loaded chunk is the minimum chunk, it starts below the global
\* minimum tick, and nothing is found in it: the min rule decides.
C4_Witness ==
    /\ SearchReturned /\ a_to_b
    /\ Len(queried) >= 2
    /\ FoundNothing(Len(queried))
    /\ queried[Len(queried)].array_index + 1 = Len(arrays)
    /\ CoversMinTick(arrays[Len(arrays)])
    /\ arrays[Len(arrays)].start_tick_index < MIN_TICK_INDEX
    /\ tick_ret = Ok(<<Len(arrays) - 1, MIN_TICK_INDEX>>)

--------------------------------------------------------------------------
(* C7 *)

\* C7: get_next_initialized_tick_index never queries a chunk at an index
\* that is not below the number of loaded chunks, and for a start_array_index
\* that is not below it the call fails with TickArraySequenceInvalidIndex
\* without having queried any chunk.
C7_InvalidIndex ==
    SearchReturned =>
        /\ \A i \in 1 .. Len(queried) : queried[i].array_index < Len(arrays)
        /\ array_index >= Len(arrays) =>
              /\ tick_ret = Err("TickArraySequenceInvalidIndex")
              /\ queried = <<>>

\* start_array_index equal to the number of loaded chunks.
C7_Witness ==
    /\ SearchReturned
    /\ array_index = Len(arrays)
    /\ tick_ret = Err("TickArraySequenceInvalidIndex")
    /\ queried = <<>>

--------------------------------------------------------------------------
(* C8 *)

\* The tick of chunk array at tick index tick.
TickAt(array, tick) ==
    array.ticks[(tick - array.start_tick_index) \div tick_spacing + 1]

\* tick is the index of one of the chunk's ticks.
HoldsTick(array, tick) ==
    /\ tick >= array.start_tick_index
    /\ tick < array.start_tick_index + TicksInArray
    /\ (tick - array.start_tick_index) % tick_spacing = 0

\* C8: get_tick, update_tick and get_tick_offset fail with
\* TickArrayIndexOutofBounds for every array_index at or past the number of
\* loaded chunks, update_tick then changing no chunk; for an array_index
\* below it they read or write the chunk at that position and no other.
C8_Dispatch ==
    [][LET index == array_index'
           tick == tick_index'
       IN /\ (pc' \in {"get_tick", "update_tick", "get_tick_offset"}
              /\ index >= Len(arrays)) =>
                 /\ tick_ret' = Err("TickArrayIndexOutofBounds")
                 /\ arrays' = arrays
          /\ (pc' = "get_tick" /\ index < Len(arrays)) =>
                 IF HoldsTick(arrays[index + 1], tick)
                 THEN tick_ret' = Ok(TickAt(arrays[index + 1], tick))
                 ELSE tick_ret' = Err("TickNotFound")
          /\ (pc' = "get_tick_offset" /\ index < Len(arrays)) =>
                 IF HoldsTick(arrays[index + 1], tick)
                 THEN tick_ret' =
                          Ok((tick - arrays[index + 1].start_tick_index)
                             \div tick_spacing)
                 ELSE tick_ret' = Err("TickNotFound")
          /\ (pc' = "update_tick" /\ index < Len(arrays)) =>
                 /\ Len(arrays') = Len(arrays)
                 /\ \A j \in 1 .. Len(arrays) :
                       j # index + 1 => arrays'[j] = arrays[j]
                 /\ IF HoldsTick(arrays[index + 1], tick)
                    THEN /\ tick_ret'.ok
                         /\ TickAt(arrays'[index + 1], tick) = update'
                         /\ \A t \in TickIndices :
                               (HoldsTick(arrays[index + 1], t) /\ t # tick) =>
                                   TickAt(arrays'[index + 1], t)
                                       = TickAt(arrays[index + 1], t)
                    ELSE /\ tick_ret' = Err("TickNotFound")
                         /\ arrays' = arrays
      ]_vars

\* update_tick at array_index equal to the number of loaded chunks, for a
\* tick that the last chunk holds and that the update would have changed.
C8_Witness ==
    /\ pc = "update_tick"
    /\ array_index = Len(arrays)
    /\ HoldsTick(arrays[Len(arrays)], tick_index)
    /\ TickAt(arrays[Len(arrays)], tick_index) # update
    /\ tick_ret = Err("TickArrayIndexOutofBounds")

--------------------------------------------------------------------------
(* C2 *)

\* A tick index outside the global bounds, a lower index not below the upper
\* one, or an index that is no multiple of the pool's tick spacing.
InvalidTickPair ==
    \/ tick_lower_index < MIN_TICK_INDEX \/ tick_lower_index > MAX_TICK_INDEX
    \/ tick_upper_index < MIN_TICK_INDEX \/ tick_upper_index > MAX_TICK_INDEX
    \/ tick_lower_index >= tick_upper_index
    \/ tick_lower_index % tick_spacing # 0
    \/ tick_upper_index % tick_spacing # 0

\* C2: open_position and open_position_with_metadata fail with
\* InvalidTickIndex for every pair of tick indices that is out of bounds,
\* misordered or not aligned to the tick spacing.
C2_InvalidTicksRejected ==
    (pc \in {"open_position", "open_position_with_metadata"} /\ InvalidTickPair)
        => open_ret = Err("InvalidTickIndex")

--------------------------------------------------------------------------
(* C5 *)

\* Every tick of the searched chunk is initialized.
FullChunk == \A i \in 1 .. TICK_ARRAY_SIZE : arrays[1].ticks[i].initialized

\* The chunk's ticks in the order of the search: decreasing when a_to_b.
InSearchOrder ==
    [i \in 1 .. TICK_ARRAY_SIZE |->
        IF a_to_b
        THEN LastTickOf(arrays[1], tick_spacing) - (i - 1) * tick_spacing
        ELSE arrays[1].start_tick_index + (i - 1) * tick_spacing]

\* The ticks returned so far are the first ticks of the chunk in search
\* order, and all of them once the chunk is exhausted.
VisitsEveryTickInOrder ==
    /\ Len(visited) <= TICK_ARRAY_SIZE
    /\ \A i \in 1 .. Len(visited) : visited[i] = InSearchOrder[i]
    /\ pc = "exhausted" => Len(visited) = TICK_ARRAY_SIZE

\* C5 as stated: a repeated search of a fully initialized chunk, started at
\* the chunk's last tick when a_to_b and at its first tick when not, returns
\* every tick of the chunk once, in strictly decreasing (increasing) order,
\* before the chunk is exhausted.
C5_AsStated ==
    (/\ pc \in {"scan", "exhausted"}
     /\ FullChunk
     /\ scan_from = IF a_to_b THEN LastTickOf(arrays[1], tick_spacing)
                              ELSE arrays[1].start_tick_index)
        => VisitsEveryTickInOrder

\* C5, amended: the same, with the search that is not a_to_b started below
\* the chunk's first tick (its start being exclusive) and the a_to_b search
\* started at or above the chunk's last tick.
C5_ExhaustiveMonotonicScan ==
    (/\ pc \in {"scan", "exhausted"}
     /\ FullChunk
     /\ IF a_to_b THEN scan_from >= LastTickOf(arrays[1], tick_spacing)
                  ELSE scan_from < arrays[1].start_tick_index)
        => VisitsEveryTickInOrder

\* An upward search of a full chunk, started below its first tick, that has
\* returned every tick and then found the chunk exhausted.
C5_Witness ==
    /\ pc = "exhausted"
    /\ FullChunk
    /\ ~a_to_b
    /\ scan_from < arrays[1].start_tick_index
    /\ Len(visited) = TICK_ARRAY_SIZE

--------------------------------------------------------------------------
(* C6 *)

\* The number of initialized ticks in the supplied chunks.
InitializedTicks ==
    Cardinality({ij \in (DOMAIN arrays) \X (1 .. TICK_ARRAY_SIZE) :
                    arrays[ij[1]].ticks[ij[2]].initialized})

\* An iteration of the swap loop has completed.
Iterated == pc \in {"swap", "swap_done", "swap_failed"} /\ iterations > 0

\* The last iteration reduced the remaining amount or moved the price
\* towards the limit.
Progressed ==
    \/ amount < before.amount
    \/ IF a_to_b THEN sqrt_price < before.sqrt_price
                 ELSE sqrt_price > before.sqrt_price

\* The last iteration aimed at a tick whose price the pool already stood
\* at: it moved neither the amount nor the price, and took the tick index
\* past that tick.
SteppedOverTick ==
    /\ before.next_tick_sqrt_price = before.sqrt_price
    /\ amount = before.amount
    /\ sqrt_price = before.sqrt_price
    /\ tick_index = IF a_to_b THEN before.next_tick_index - 1
                              ELSE before.next_tick_index
    /\ tick_index # before.tick_index

--------------------------------------------------------------------------
(* C11 *)

\* The lower and the upper of the two prices handed to get_amount_delta_a/b.
DeltaLower == increasing_price_order(price_0, price_1)[1]

DeltaUpper == increasing_price_order(price_0, price_1)[2]

\* liquidity * (hi - lo) * 2^64 / (hi * lo), rounded as asked, as an
\* unbounded integer.
DeltaAExact ==
    LET num == liquidity * (DeltaUpper - DeltaLower) * TO_Q64
        den == DeltaUpper * DeltaLower
    IN IF round_up /\ num % den > 0 THEN num \div den + 1 ELSE num \div den

DeltaAReturned == pc = "get_amount_delta_a" /\ DeltaLower > 0

\* C11 as stated: get_amount_delta_a returns the rounded value whenever it
\* fits in 64 bits and fails with TokenMaxExceeded whenever it does not.
C11_AsStated ==
    DeltaAReturned =>
        amount_delta = IF DeltaAExact <= U64_MAX THEN Ok(DeltaAExact)
                       ELSE Err("TokenMaxExceeded")

\* C11, amended: get_amount_delta_a fails with MultiplicationOverflow when
\* liquidity * (hi - lo) needs more than three words; otherwise fails in the
\* narrowing conversion when the rounded value needs more than 128 bits,
\* fails with TokenMaxExceeded when it needs more than 64 bits, and returns
\* it when it fits in 64 bits.
C11_DeltaA ==
    DeltaAReturned =>
        amount_delta =
            IF liquidity * (DeltaUpper - DeltaLower) >= Pow2(3 * WordBits)
            THEN Err("MultiplicationOverflow")
            ELSE IF DeltaAExact > U128_MAX THEN Err("NumberDownCastError")
            ELSE IF DeltaAExact > U64_MAX THEN Err("TokenMaxExceeded")
            ELSE Ok(DeltaAExact)

\* A call that returned a rounded-up amount between two different prices.
C11_Witness ==
    /\ DeltaAReturned
    /\ round_up
    /\ amount_delta.ok
    /\ amount_delta.val * DeltaUpper * DeltaLower
           > liquidity * (DeltaUpper - DeltaLower) * TO_Q64

--------------------------------------------------------------------------
(* C12 *)

\* get_next_sqrt_price has returned from a call that fixes token A.
FixedAReturned ==
    pc = "get_next_sqrt_price" /\ amount_specified_is_input = a_to_b

\* liquidity * 2^64 + amount * sqrt_price for an input, with - for an
\* output, as an unbounded integer.
FixedADenominator ==
    IF amount_specified_is_input
    THEN liquidity * TO_Q64 + amount * sqrt_price
    ELSE liquidity * TO_Q64 - amount * sqrt_price

\* ceil(liquidity * sqrt_price * 2^64 / denominator), for a positive
\* denominator.
FixedAExact ==
    LET num == liquidity * sqrt_price * TO_Q64
    IN IF num % FixedADenominator > 0 THEN num \div FixedADenominator + 1
       ELSE num \div FixedADenominator

\* The result C12 states for the value r of a positive denominator.
FixedAChecked(r) ==
    IF r < MIN_SQRT_PRICE_X64 THEN Err("TokenMinSubceeded")
    ELSE IF r > MAX_SQRT_PRICE_X64 THEN Err("TokenMaxExceeded")
    ELSE Ok(r)

\* C12 as stated: with token A fixed, get_next_sqrt_price fails with
\* DivideByZero when the output denominator is not positive, and otherwise
\* returns the rounded-up quotient, failing with TokenMinSubceeded below
\* MIN_SQRT_PRICE_X64 and TokenMaxExceeded above MAX_SQRT_PRICE_X64, so that
\* every success lies between the two. (An input denominator of zero, where
\* the quotient is undefined, is left out.)
C12_AsStated ==
    (FixedAReturned /\ (amount_specified_is_input => FixedADenominator > 0))
    => /\ next_sqrt_price =
              IF FixedADenominator <= 0 THEN Err("DivideByZero")
              ELSE FixedAChecked(FixedAExact)
       /\ next_sqrt_price.ok =>
              /\ next_sqrt_price.val >= MIN_SQRT_PRICE_X64
              /\ next_sqrt_price.val <= MAX_SQRT_PRICE_X64

\* C12, amended: with token A fixed, an amount of 0 returns sqrt_price as it
\* is, unchecked; a positive amount fails with MultiplicationOverflow when
\* liquidity * sqrt_price needs more than three words, otherwise with
\* DivideByZero when the output denominator is not positive, otherwise in
\* the narrowing conversion when the rounded-up quotient needs more than
\* 128 bits, and otherwise returns the rounded-up quotient or fails with
\* TokenMinSubceeded below MIN_SQRT_PRICE_X64 and TokenMaxExceeded above
\* MAX_SQRT_PRICE_X64; so every success of a positive amount lies between
\* the two.
C12_PriceFromA ==
    (FixedAReturned /\ (amount_specified_is_input => FixedADenominator > 0))
    => /\ next_sqrt_price =
              IF amount = 0 THEN Ok(sqrt_price)
              ELSE IF liquidity * sqrt_price >= Pow2(3 * WordBits)
              THEN Err("MultiplicationOverflow")
              ELSE IF FixedADenominator <= 0 THEN Err("DivideByZero")
              ELSE IF FixedAExact > U128_MAX THEN Err("NumberDownCastError")
              ELSE FixedAChecked(FixedAExact)
       /\ (next_sqrt_price.ok /\ amount > 0) =>
              /\ next_sqrt_price.val >= MIN_SQRT_PRICE_X64
              /\ next_sqrt_price.val <= MAX_SQRT_PRICE_X64

\* A positive output amount of token A moved the price to a quotient that
\* was rounded up.
C12_Witness ==
    /\ FixedAReturned
    /\ ~amount_specified_is_input
    /\ amount > 0
    /\ next_sqrt_price.ok
    /\ next_sqrt_price.val * FixedADenominator
           > liquidity * sqrt_price * TO_Q64

--------------------------------------------------------------------------
(* C13 *)

\* get_next_sqrt_price has returned from a call that fixes token B.
FixedBReturned ==
    pc = "get_next_sqrt_price" /\ amount_specified_is_input # a_to_b

\* (amount << 64) / liquidity, rounded down for an input and up for an
\* output, as an unbounded integer, for a positive liquidity.
FixedBDelta ==
    LET n == amount * TO_Q64
    IN IF ~amount_specified_is_input /\ n % liquidity > 0
       THEN n \div liquidity + 1
       ELSE n \div liquidity

\* The addition overflows 128 bits, or the subtraction goes below zero.
FixedBOutOfBounds ==
    IF amount_specified_is_input THEN sqrt_price + FixedBDelta > U128_MAX
    ELSE sqrt_price < FixedBDelta

\* C13: with token B fixed and a positive liquidity, get_next_sqrt_price
\* returns sqrt_price + floor((amount << 64) / liquidity) for an input and
\* sqrt_price - ceil((amount << 64) / liquidity) for an output, and fails
\* with SqrtPriceOutOfBounds exactly when the addition overflows 128 bits or
\* the subtraction goes below zero.
C13_PriceFromB ==
    FixedBReturned =>
        /\ liquidity > 0 =>
               next_sqrt_price =
                   IF FixedBOutOfBounds THEN Err("SqrtPriceOutOfBounds")
                   ELSE IF amount_specified_is_input
                   THEN Ok(sqrt_price + FixedBDelta)
                   ELSE Ok(sqrt_price - FixedBDelta)
        /\ next_sqrt_price.err = "SqrtPriceOutOfBounds" =>
               liquidity > 0 /\ FixedBOutOfBounds

\* An output amount of token B lowered the price by a quotient that was
\* rounded up.
C13_Witness ==
    /\ FixedBReturned
    /\ ~amount_specified_is_input
    /\ liquidity > 0
    /\ next_sqrt_price.ok
    /\ next_sqrt_price.val < sqrt_price
    /\ (sqrt_price - next_sqrt_price.val) * liquidity > amount * TO_Q64

--------------------------------------------------------------------------
(* C16 *)

\* C16: whenever get_next_sqrt_price succeeds, the returned price is at
\* most sqrt_price when a_to_b and at least sqrt_price when not, for both
\* values of amount_specified_is_input; and for an amount of 0 and a
\* positive liquidity it succeeds with sqrt_price.
C16_MovesInTradeDirection ==
    pc = "get_next_sqrt_price" =>
        /\ (next_sqrt_price.ok /\ a_to_b) => next_sqrt_price.val <= sqrt_price
        /\ (next_sqrt_price.ok /\ ~a_to_b) => next_sqrt_price.val >= sqrt_price
        /\ (amount = 0 /\ liquidity > 0) => next_sqrt_price = Ok(sqrt_price)

\* An a_to_b trade of a positive input amount of token A lowered the price.
C16_Witness ==
    /\ pc = "get_next_sqrt_price"
    /\ a_to_b
    /\ amount_specified_is_input
    /\ amount > 0
    /\ next_sqrt_price.ok
    /\ next_sqrt_price.val < sqrt_price

--------------------------------------------------------------------------
(* C14 *)

\* The amount returned between two prices has been fed back into
\* get_next_sqrt_price, which succeeded, for a positive liquidity.
RoundTripDone ==
    /\ pc \in {"round_trip_a", "round_trip_b"}
    /\ liquidity > 0
    /\ next_sqrt_price.ok

\* The bounding price the round trip moves towards.
RoundTripTarget == IF a_to_b THEN DeltaLower ELSE DeltaUpper

RoundTripError ==
    IF next_sqrt_price.val >= RoundTripTarget
    THEN next_sqrt_price.val - RoundTripTarget
    ELSE RoundTripTarget - next_sqrt_price.val

\* C14 as stated: for every positive liquidity, the price returned for the
\* amount of get_amount_delta_a or get_amount_delta_b differs from the other
\* bounding price by at most 1.
C14_AsStated == RoundTripDone => RoundTripError <= 1

\* One unit of the amount moves the price by less than one unit of price.
RoundTripResolved ==
    IF pc = "round_trip_a"
    THEN liquidity * TO_Q64 >= DeltaUpper * (DeltaUpper + 1)
    ELSE liquidity >= TO_Q64

\* C14, amended: the round trip differs from the other bounding price by at
\* most 1 when liquidity >= 2^64 for token B, and when
\* liquidity * 2^64 >= hi * (hi + 1) for token A.
C14_RoundTrip == (RoundTripDone /\ RoundTripResolved) => RoundTripError <= 1

\* A round trip through token A that ends one unit from the bounding price.
C14_Witness ==
    /\ RoundTripDone
    /\ RoundTripResolved
    /\ pc = "round_trip_a"
    /\ amount > 0
    /\ RoundTripError = 1

--------------------------------------------------------------------------
(* C15 *)

\* get_amount_delta_a or get_amount_delta_b has returned an amount.
DeltaSucceeded ==
    pc \in {"get_amount_delta_a", "get_amount_delta_b"} /\ amount_delta.ok

\* The same function called again with the same round_up flag.
DeltaAgain(q0, q1, liq) ==
    IF pc = "get_amount_delta_a"
    THEN get_amount_delta_a(q0, q1, liq, round_up)
    ELSE get_amount_delta_b(q0, q1, liq, round_up)

NotSmaller(r) == r.ok => r.val >= amount_delta.val

\* For the same prices, no greater liquidity yields a smaller amount.
MonotoneInLiquidity ==
    \A liq \in DeltaLiquidities :
        liq >= liquidity => NotSmaller(DeltaAgain(price_0, price_1, liq))

\* C15 as stated: for a fixed round_up flag, neither function yields a
\* smaller amount for a greater liquidity, nor for a pair of prices with a
\* greater absolute difference.
C15_AsStated ==
    DeltaSucceeded =>
        /\ MonotoneInLiquidity
        /\ \A q0 \in DeltaPrices, q1 \in DeltaPrices :
               LET ord == increasing_price_order(q0, q1)
               IN ord[2] - ord[1] >= DeltaUpper - DeltaLower
                      => NotSmaller(DeltaAgain(q0, q1, liquidity))

\* C15, amended: neither function yields a smaller amount for a greater
\* liquidity; get_amount_delta_b yields no smaller amount for a pair of
\* prices with a greater absolute difference, and get_amount_delta_a none
\* for a pair of prices that encloses the first pair.
C15_Monotone ==
    DeltaSucceeded =>
        /\ MonotoneInLiquidity
        /\ \A q0 \in DeltaPrices, q1 \in DeltaPrices :
               LET ord == increasing_price_order(q0, q1)
               IN (IF pc = "get_amount_delta_a"
                   THEN ord[1] <= DeltaLower /\ DeltaUpper <= ord[2]
                   ELSE ord[2] - ord[1] >= DeltaUpper - DeltaLower)
                      => NotSmaller(DeltaAgain(q0, q1, liquidity))

\* A positive amount of token B that a greater liquidity and a wider pair of
\* prices both raise.
C15_Witness ==
    /\ DeltaSucceeded
    /\ pc = "get_amount_delta_b"
    /\ amount_delta.val > 0
    /\ \E liq \in DeltaLiquidities :
           LET r == get_amount_delta_b(price_0, price_1, liq, round_up)
           IN liq > liquidity /\ r.ok /\ r.val > amount_delta.val
    /\ \E q \in DeltaPrices :
           LET r == get_amount_delta_b(DeltaLower, q, liquidity, round_up)
           IN q > DeltaUpper /\ r.ok /\ r.val > amount_delta.val

--------------------------------------------------------------------------
(* C17 *)

\* C17: a call of get_next_initialized_tick_index with start_array_index
\* below the number of loaded chunks queries at most that number less
\* start_array_index chunks, each once and in increasing index order from
\* start_array_index on; it never returns TickArraySequenceInvalidIndex, and
\* a successful result has its array index from start_array_index up to,
\* not including, the number of loaded chunks.
C17_BoundedSearch ==
    (SearchReturned /\ array_index < Len(arrays)) =>
        /\ Len(queried) >= 1
        /\ Len(queried) <= Len(arrays) - array_index
        /\ \A i \in 1 .. Len(queried) :
              queried[i].array_index = array_index + i - 1
        /\ tick_ret # Err("TickArraySequenceInvalidIndex")
        /\ tick_ret.ok =>
              /\ tick_ret.val[1] >= array_index
              /\ tick_ret.val[1] < Len(arrays)

\* Every loaded chunk was queried and the last one held no initialized tick:
\* the call returned a boundary tick of the last loaded chunk.
C17_Witness ==
    /\ SearchReturned
    /\ array_index = 0
    /\ Len(queried) = Len(arrays)
    /\ Len(arrays) > 1
    /\ FoundNothing(Len(queried))
    /\ tick_ret.ok
    /\ tick_ret.val[1] = Len(arrays) - 1

==========================================================================
